---- MODULE Spec2Model ----
(***************************************************************************)
(* Model of garcon/runner.py: the task runners of an activity.             *)
(*                                                                         *)
(*   BaseRunner  holds the task sequence and derives `timeout` and         *)
(*               `requirements` from the tasks' `__garcon__` metadata.     *)
(*   Sync        runs the tasks in series, threading the results.          *)
(*   Async       submits the tasks to a ThreadPoolExecutor and merges the  *)
(*               results as the futures complete.                          *)
(***************************************************************************)
EXTENDS Integers, Sequences, FiniteSets, TLC

(***************************************************************************)
(* Bounds of the model.                                                    *)
(***************************************************************************)
\* longest task list a runner is constructed with
MaxTasks == 3
\* longest task list of a runner whose execute is followed thread by thread
MaxAsyncTasks == 2
\* largest explicit max_workers keyword given to Async(...)
MaxWorkers == 1
\* largest explicit max_workers keyword where the worker pool itself is followed
MaxPoolWorkers == 2

(***************************************************************************)
(* Python values.                                                          *)
(***************************************************************************)
\* a dict is a function from a finite set of keys
EmptyDict == [k \in {} |-> 0]

\* an optional value: None, or a dict
None == [isNone |-> TRUE, d |-> EmptyDict]

Some(d) == [isNone |-> FALSE, d |-> d]

\* truthiness of an optional dict: None and the empty dict are falsy
Truthy(v) == ~v.isNone /\ DOMAIN v.d # {}

\* d.get(key, default)
DictGet(d, key, default) == IF key \in DOMAIN d THEN d[key] ELSE default

\* d.update(e): the keys of e overwrite those of d
DictUpdate(d, e) ==
    [k \in DOMAIN d \cup DOMAIN e |-> IF k \in DOMAIN e THEN e[k] ELSE d[k]]

\* list(d.items()): the (key, value) pairs of d, each key once
RECURSIVE ItemsOf(_, _)
ItemsOf(d, keys) ==
    IF keys = {} THEN <<>>
    ELSE LET k == CHOOSE x \in keys : TRUE
         IN  <<<<k, d[k]>>>> \o ItemsOf(d, keys \ {k})

Items(d) == ItemsOf(d, DOMAIN d)

\* dict(pairs): built left to right, a later pair overwrites an earlier one
RECURSIVE DictFromPairs(_)
DictFromPairs(pairs) ==
    IF pairs = <<>> THEN EmptyDict
    ELSE LET n    == Len(pairs)
             init == DictFromPairs(SubSeq(pairs, 1, n - 1))
             last == pairs[n]
         IN  [k \in DOMAIN init \cup {last[1]} |->
                 IF k = last[1] THEN last[2] ELSE init[k]]

\* set(list)
SetOf(list) == {list[n] : n \in 1..Len(list)}

\* str(n) for an int n >= 0, as the sequence of its decimal digits
Digit(n) == CASE n = 0 -> "0" [] n = 1 -> "1" [] n = 2 -> "2" [] n = 3 -> "3"
              [] n = 4 -> "4" [] n = 5 -> "5" [] n = 6 -> "6" [] n = 7 -> "7"
              [] n = 8 -> "8" [] n = 9 -> "9"

RECURSIVE Str(_)
Str(n) == IF n < 10 THEN <<Digit(n)>> ELSE Str(n \div 10) \o <<Digit(n % 10)>>

(***************************************************************************)
(* The tasks a runner is built from.  A task is a callable; it may carry   *)
(* a `__garcon__` attribute (meta: None when the attribute is absent).     *)
(* Its body is described by what it does with its input mapping:           *)
(*   copy    <<from, to>>: reads input.get(from) and, when the key is      *)
(*           there, returns {to: input[from]}                              *)
(*   writes  a dict it stores into its input mapping (input.update)        *)
(*   raises  the error it raises ("" when it returns)                      *)
(*   ret     what it returns otherwise (None or a dict)                    *)
(***************************************************************************)
TaskPool == <<
    \* 1: produces a and c; declares a timeout and requirements
    [meta   |-> Some([timeout |-> 30, requirements |-> <<"x", "y">>]),
     copy   |-> <<>>, writes |-> EmptyDict, raises |-> "",
     ret    |-> Some([a |-> 1, c |-> 1])],
    \* 2: reads a, produces b (returns nothing when a is not in its input);
    \*    declares requirements only
    [meta   |-> Some([requirements |-> <<"y", "z", "y">>]),
     copy   |-> <<"a", "b">>, writes |-> EmptyDict, raises |-> "", ret |-> None],
    \* 3: an undecorated task (no __garcon__ attribute) that raises E1
    [meta   |-> None,
     copy   |-> <<>>, writes |-> EmptyDict, raises |-> "E1", ret |-> None],
    \* 4: writes a into its input mapping, produces c (it reads nothing);
    \*    its __garcon__ record has no fields
    [meta   |-> Some(EmptyDict),
     copy   |-> <<>>, writes |-> [a |-> 9], raises |-> "", ret |-> Some([c |-> 3])],
    \* 5: raises E2; declares a timeout of 0 only
    [meta   |-> Some([timeout |-> 0]),
     copy   |-> <<>>, writes |-> EmptyDict, raises |-> "E2", ret |-> None]
  >>

TaskIds == DOMAIN TaskPool

\* every task list of at most MaxTasks tasks
TaskLists == UNION {[1..n -> TaskIds] : n \in 0..MaxTasks}

\* the task lists in which no task occurs twice
DistinctTaskLists ==
    {ts \in TaskLists : \A m, n \in DOMAIN ts : m # n => ts[m] # ts[n]}

\* the contexts a caller hands to execute
Contexts == {EmptyDict, [a |-> 0, z |-> 7]}

\* the contexts handed to the execute of a runner of class k
ContextsOf(k) == IF k = "Async" THEN {[a |-> 0, z |-> 7]} ELSE Contexts

\* task(input, activity=activity): the outcome of one call of a task
TaskCall(id, input) ==
    LET t     == TaskPool[id]
        copied == IF t.copy # <<>> /\ t.copy[1] \in DOMAIN input
                  THEN Some([k \in {t.copy[2]} |-> input[t.copy[1]]])
                  ELSE t.ret
    IN  [raised      |-> t.raises # "",
         err         |-> t.raises,
         resp        |-> IF t.raises # "" THEN None ELSE copied,
         input_after |-> DictUpdate(input, t.writes)]

(***************************************************************************)
(* BaseRunner.timeout and BaseRunner.requirements                          *)
(***************************************************************************)
DEFAULT_TASK_TIMEOUT == 600

\* getattr(task, '__garcon__', None)
GetGarcon(id) == TaskPool[id].meta

\* (mutation) a declared timeout of 0 is taken as no timeout declared
TaskTimeout_ZeroIsDefault(id) ==
    LET task_details == GetGarcon(id)
        declared     == IF Truthy(task_details)
                        THEN DictGet(task_details.d, "timeout", DEFAULT_TASK_TIMEOUT)
                        ELSE DEFAULT_TASK_TIMEOUT
    IN  IF declared = 0 THEN DEFAULT_TASK_TIMEOUT ELSE declared

\* one iteration of the loop of `timeout`: the timeout of one task
TaskTimeout(id) ==
    LET task_details == GetGarcon(id)
    IN  IF Truthy(task_details)
        THEN DictGet(task_details.d, "timeout", DEFAULT_TASK_TIMEOUT)
        ELSE DEFAULT_TASK_TIMEOUT

RECURSIVE TimeoutLoop(_, _, _)
TimeoutLoop(ts, n, timeout) ==
    IF n > Len(ts) THEN timeout
    ELSE TimeoutLoop(ts, n + 1, timeout + TaskTimeout(ts[n]))

\* the property BaseRunner.timeout
Timeout(ts) == Str(TimeoutLoop(ts, 1, 0))

\* whether the loop of `requirements` accepts a task
HasDetails(id) == Truthy(GetGarcon(id))

\* the loop of `requirements`: the list accumulated, or the error raised
RECURSIVE RequirementsLoop(_, _, _)
RequirementsLoop(ts, n, requirements) ==
    IF n > Len(ts) THEN [raised |-> FALSE, err |-> "", val |-> SetOf(requirements)]
    ELSE IF HasDetails(ts[n])
         THEN RequirementsLoop(ts, n + 1,
                  requirements \o DictGet(GetGarcon(ts[n]).d, "requirements", <<>>))
         ELSE [raised |-> TRUE, err |-> "NoRunnerRequirementsFound", val |-> {}]

\* the property BaseRunner.requirements
Requirements(ts) == RequirementsLoop(ts, 1, <<>>)

(***************************************************************************)
(* The state of one runner and of one call of execute on it.               *)
(***************************************************************************)
VARIABLES
    kind,               \* the runner's class: "Sync" or "Async"
    tasks,              \* self.tasks: the task sequence given at construction
    kwargs,             \* the keyword arguments the runner was constructed with
    max_workers,        \* self.max_workers (0: a Sync runner has no such attribute)
    context,            \* the caller's context mapping (the object passed to execute)
    context0,           \* its content when execute was called
    pc,                 \* where the thread calling execute is
    i,                  \* position of `for task in self.tasks`
    result,             \* the local dict `result`
    ret,                \* the mapping execute returned (None: nothing returned)
    err,                \* the error execute is raising ("": none)
    log,                \* the calls of tasks so far, in order, with their input
    out,                \* per task: what its call returned or raised
    fstate,             \* Async: per work item, "new", "pending" (queued), "taken"
                        \*   (a worker has got it), "running" (the task is called),
                        \*   "ran" (the body is over), "finished" (the future is set)
    threads,            \* Async: len(executor._threads)
    adjust,             \* Async: where the caller is in _adjust_thread_count: "none"
                        \*   (not in it), "spawn" (the idle semaphore was not
                        \*   acquired), "started" (Thread.start has returned, the
                        \*   thread is not yet added to _threads)
    idle,               \* Async: value of the executor's idle semaphore
    held,               \* Async: the work items whose worker is not back at the queue
    finished_order,     \* Async: the futures in the order they finished
    snapshot,           \* Async: futures already finished when as_completed began
    yielded,            \* Async: the futures as_completed has yielded, in order
    timeout_read,       \* the last value read from the property `timeout`
    requirements_read   \* the last outcome of reading the property `requirements`

vars == <<kind, tasks, kwargs, max_workers, context, context0, pc, i, result, ret, err,
          log, out, fstate, threads, adjust, idle, held, finished_order, snapshot,
          yielded, timeout_read, requirements_read>>

runner_vars == <<kind, tasks, kwargs, max_workers>>

async_vars == <<fstate, threads, adjust, idle, held, finished_order, snapshot, yielded>>

read_vars == <<timeout_read, requirements_read>>

N == Len(tasks)

NoOutcome == [state |-> "none", resp |-> None, err |-> ""]

NotRead == [read |-> FALSE, at |-> "", raised |-> FALSE, err |-> "", val |-> {}]

\* the default of kwargs.get('max_workers', 3)
DEFAULT_MAX_WORKERS == 3

\* the keyword arguments Async(...) is constructed with
Kwargs == {EmptyDict} \cup {[max_workers |-> n] : n \in 1..MaxWorkers}

\* Async.__init__: self.max_workers
AsyncMaxWorkers(kw) == DictGet(kw, "max_workers", DEFAULT_MAX_WORKERS)

\* the runner after construction, before execute is called
InitOf(kinds, lists, kws) ==
    /\ kind \in kinds
    /\ tasks \in lists
    /\ kwargs \in IF kind = "Async" THEN kws ELSE {EmptyDict}
    /\ max_workers = IF kind = "Async" THEN AsyncMaxWorkers(kwargs) ELSE 0
    /\ context \in ContextsOf(kind)
    /\ context0 = context
    /\ pc = "idle"
    /\ i = 1
    /\ result = EmptyDict
    /\ ret = None
    /\ err = ""
    /\ log = <<>>
    /\ out = [t \in 1..Len(tasks) |-> NoOutcome]
    /\ fstate = [t \in 1..Len(tasks) |-> "new"]
    /\ threads = 0
    /\ adjust = "none"
    /\ idle = 0
    /\ held = {}
    /\ finished_order = <<>>
    /\ snapshot = {}
    /\ yielded = <<>>
    /\ timeout_read = NotRead
    /\ requirements_read = NotRead

\* `resp or dict()`
OrDict(resp) == IF Truthy(resp) THEN resp.d ELSE EmptyDict

\* what a finished call leaves in `out`
OutcomeOf(call) ==
    [state |-> IF call.raised THEN "raised" ELSE "returned",
     resp  |-> call.resp,
     err   |-> call.err]

(***************************************************************************)
(* Sync.execute                                                            *)
(***************************************************************************)
\* task_context = dict(list(result.items()) + list(context.items()))
SyncTaskContext(res, ctx) == DictFromPairs(Items(res) \o Items(ctx))

\* (mutation) the error of a task is swallowed and the loop goes on
SyncPropagates_Swallowed(call) == FALSE

\* an error raised by task(...) is not caught: it leaves execute
SyncPropagates(call) == call.raised

\* (mutation) the merge keeps the value already accumulated for a key
SyncMerge_KeepFirst(res, resp) == DictUpdate(OrDict(resp), res)

\* result.update(resp or dict())
SyncMerge(res, resp) == DictUpdate(res, OrDict(resp))

\* result = dict()
SyncCall ==
    /\ kind = "Sync"
    /\ pc = "idle"
    /\ pc' = "loop"
    /\ result' = EmptyDict
    /\ UNCHANGED <<runner_vars, context, context0, i, ret, err, log, out,
                   async_vars, read_vars>>

\* one iteration of the loop: build the task's context, call it, merge
SyncStep ==
    /\ kind = "Sync"
    /\ pc = "loop"
    /\ i <= N
    /\ LET task_context == SyncTaskContext(result, context)
           call         == TaskCall(tasks[i], task_context)
       IN  /\ log' = Append(log, [idx |-> i, input |-> task_context, ctx |-> context])
           /\ out' = [out EXCEPT ![i] = OutcomeOf(call)]
           /\ IF SyncPropagates(call)
              THEN /\ pc' = "raised"
                   /\ err' = call.err
                   /\ UNCHANGED <<result, i>>
              ELSE /\ result' = SyncMerge(result, call.resp)
                   /\ i' = i + 1
                   /\ UNCHANGED <<pc, err>>
    /\ UNCHANGED <<runner_vars, context, context0, ret, async_vars, read_vars>>

\* return result
SyncReturn ==
    /\ kind = "Sync"
    /\ pc = "loop"
    /\ i > N
    /\ pc' = "returned"
    /\ ret' = Some(result)
    /\ UNCHANGED <<runner_vars, context, context0, i, result, err, log, out,
                   async_vars, read_vars>>

\* Sync.execute as a function of the task list and the context, for a list
\* in which no task raises: the loop of lines 90-93 from position n on
RECURSIVE SyncLoop(_, _, _, _)
SyncLoop(ts, ctx, res, n) ==
    IF n > Len(ts) THEN res
    ELSE LET call == TaskCall(ts[n], SyncTaskContext(res, ctx))
         IN  SyncLoop(ts, ctx, SyncMerge(res, call.resp), n + 1)

SyncExecute(ts, ctx) == SyncLoop(ts, ctx, EmptyDict, 1)

NextSync == SyncCall \/ SyncStep \/ SyncReturn

SpecSync == InitOf({"Sync"}, TaskLists, Kwargs) /\ [][NextSync]_vars

(***************************************************************************)
(* Reading the properties of a runner                                      *)
(***************************************************************************)
\* (mutation) the timeout counts only the tasks execute has not gone through
ReadTimeout_Remaining ==
    /\ pc \in {"idle", "returned", "raised"}
    /\ timeout_read' = [read |-> TRUE, at |-> pc, raised |-> FALSE, err |-> "",
                        val |-> Timeout(SubSeq(tasks, i, N))]
    /\ UNCHANGED <<runner_vars, context, context0, pc, i, result, ret, err, log,
                   out, async_vars, requirements_read>>

\* runner.timeout is read, before or after a call of execute (at: where)
ReadTimeout ==
    /\ pc \in {"idle", "returned", "raised"}
    /\ timeout_read' = [read |-> TRUE, at |-> pc, raised |-> FALSE, err |-> "",
                        val |-> Timeout(tasks)]
    /\ UNCHANGED <<runner_vars, context, context0, pc, i, result, ret, err, log,
                   out, async_vars, requirements_read>>

\* runner.requirements is read, before or after a call of execute
ReadRequirements ==
    /\ pc \in {"idle", "returned", "raised"}
    /\ requirements_read' = [read |-> TRUE, at |-> pc] @@ Requirements(tasks)
    /\ UNCHANGED <<runner_vars, context, context0, pc, i, result, ret, err, log,
                   out, async_vars, timeout_read>>

NextProps == ReadTimeout \/ ReadRequirements

SpecProps == InitOf({"Sync", "Async"}, TaskLists, Kwargs) /\ [][NextProps]_vars

(***************************************************************************)
(* Async.execute                                                           *)
(*                                                                         *)
(* The calling thread submits every task to the executor, then iterates    *)
(* futures.as_completed and merges each result; leaving the `with` block   *)
(* calls executor.shutdown(wait=True).  The executor's worker threads,     *)
(* at most max_workers of them, take the submitted work items in FIFO      *)
(* order and run them.  A worker's handling of an item is followed step by *)
(* step, other threads running in between: it gets the item from the       *)
(* queue, calls the task, the body runs, the future is given its outcome,  *)
(* the idle semaphore is released.  So is the caller's submit: the item    *)
(* is put on the queue, the idle semaphore is tried, a thread is started,  *)
(* the thread is added to _threads.                                        *)
(***************************************************************************)
\* the mapping executor.submit(task, context, activity=activity) hands to a task
AsyncTaskArg(ctx, res) == ctx

\* the futures in a given state
InState(st) == {t \in 1..N : fstate[t] = st}

\* (mutation) the executor starts a worker thread whatever their number
PoolNotFull_Unbounded(n, bound) == TRUE

\* _adjust_thread_count: num_threads < self._max_workers
PoolNotFull(n, bound) == n < bound

\* _idle_semaphore.acquire(timeout=0) in _adjust_thread_count
IdleAfterSubmit(sem) == IF sem > 0 THEN sem - 1 ELSE sem

\* the worker threads that run: those of _threads and, between Thread.start
\* and _threads.add, the one just started
LiveThreads == threads + (IF adjust = "started" THEN 1 ELSE 0)

\* (mutation) one worker thread never takes a work item
WorkerFree_OneIdle(busy, n) == Cardinality(busy) + 1 < n

\* a worker thread is waiting at the work queue
WorkerFree(busy, n) == Cardinality(busy) < n

\* the work queue is FIFO: the next item is the oldest one pending
NextQueued(t) == t \in InState("pending") /\ \A u \in InState("pending") : t <= u

\* result = dict(); entering the `with` block
AsyncCall ==
    /\ kind = "Async"
    /\ pc = "idle"
    /\ pc' = "submit"
    /\ result' = EmptyDict
    /\ UNCHANGED <<runner_vars, context, context0, i, ret, err, log, out,
                   async_vars, read_vars>>

\* executor.submit(task, context, activity=activity), first half: the work
\* item is put on the queue (work_queue.put); the workers can take it at once
SubmitPut ==
    /\ kind = "Async"
    /\ pc = "submit"
    /\ i <= N
    /\ fstate[i] = "new"
    /\ fstate' = [fstate EXCEPT ![i] = "pending"]
    /\ UNCHANGED <<runner_vars, context, context0, pc, i, result, ret, err, log, out,
                   threads, adjust, idle, held, finished_order, snapshot, yielded, read_vars>>

\* _adjust_thread_count, _idle_semaphore.acquire(timeout=0): when it succeeds
\* no thread is started, submit returns, tasks.append(...) and the loop goes
\* on to the next task; when it fails the caller goes on in _adjust_thread_count
SubmitAcquire ==
    /\ kind = "Async"
    /\ pc = "submit"
    /\ i <= N
    /\ fstate[i] # "new"
    /\ adjust = "none"
    /\ idle' = IdleAfterSubmit(idle)
    /\ IF idle > 0
       THEN i' = i + 1 /\ adjust' = adjust
       ELSE i' = i /\ adjust' = "spawn"
    /\ UNCHANGED <<runner_vars, context, context0, pc, result, ret, err, log, out,
                   fstate, threads, held, finished_order, snapshot, yielded, read_vars>>

\* _adjust_thread_count, after the failed acquire: with fewer than max_workers
\* threads a thread is started (Thread.start returns once it runs); otherwise
\* submit returns, tasks.append(...) and the loop goes on to the next task
SubmitStart ==
    /\ kind = "Async"
    /\ pc = "submit"
    /\ adjust = "spawn"
    /\ IF PoolNotFull(threads, max_workers)
       THEN i' = i /\ adjust' = "started"
       ELSE i' = i + 1 /\ adjust' = "none"
    /\ UNCHANGED <<runner_vars, context, context0, pc, result, ret, err, log, out,
                   fstate, threads, idle, held, finished_order, snapshot, yielded,
                   read_vars>>

\* _adjust_thread_count, self._threads.add(t); then submit returns,
\* tasks.append(...) and the loop goes on to the next task
SubmitAdd ==
    /\ kind = "Async"
    /\ pc = "submit"
    /\ adjust = "started"
    /\ threads' = threads + 1
    /\ adjust' = "none"
    /\ i' = i + 1
    /\ UNCHANGED <<runner_vars, context, context0, pc, result, ret, err, log, out,
                   fstate, idle, held, finished_order, snapshot, yielded, read_vars>>

\* a worker thread gets the oldest work item from the queue (work_queue.get)
WorkerTake(t) ==
    /\ kind = "Async"
    /\ NextQueued(t)
    /\ WorkerFree(held, LiveThreads)
    /\ fstate' = [fstate EXCEPT ![t] = "taken"]
    /\ held' = held \cup {t}
    /\ UNCHANGED <<runner_vars, context, context0, pc, i, result, ret, err, log, out,
                   threads, adjust, idle, finished_order, snapshot, yielded, read_vars>>

\* the worker runs the work item: the task is called with the shared mapping
WorkerStart(t) ==
    /\ kind = "Async"
    /\ fstate[t] = "taken"
    /\ fstate' = [fstate EXCEPT ![t] = "running"]
    /\ log' = Append(log, [idx |-> t, input |-> AsyncTaskArg(context, result),
                           ctx |-> context])
    /\ UNCHANGED <<runner_vars, context, context0, pc, i, result, ret, err, out,
                   threads, adjust, idle, held, finished_order, snapshot, yielded, read_vars>>

\* the task body reads and writes the mapping it was handed, and returns or raises
WorkerBody(t) ==
    /\ kind = "Async"
    /\ fstate[t] = "running"
    /\ LET call == TaskCall(tasks[t], AsyncTaskArg(context, result))
       IN  /\ out' = [out EXCEPT ![t] = OutcomeOf(call)]
           /\ context' = call.input_after
    /\ fstate' = [fstate EXCEPT ![t] = "ran"]
    /\ UNCHANGED <<runner_vars, context0, pc, i, result, ret, err, log,
                   threads, adjust, idle, held, finished_order, snapshot, yielded, read_vars>>

\* (mutation) the worker thread itself merges the output into result
WorkerFinish_Merging(t) ==
    /\ kind = "Async"
    /\ fstate[t] = "ran"
    /\ fstate' = [fstate EXCEPT ![t] = "finished"]
    /\ finished_order' = Append(finished_order, t)
    /\ result' = DictUpdate(result, OrDict(out[t].resp))
    /\ UNCHANGED <<runner_vars, context, context0, pc, i, ret, err, log, out,
                   threads, adjust, idle, held, snapshot, yielded, read_vars>>

\* future.set_result / future.set_exception: the future is finished
WorkerFinish(t) ==
    /\ kind = "Async"
    /\ fstate[t] = "ran"
    /\ fstate' = [fstate EXCEPT ![t] = "finished"]
    /\ finished_order' = Append(finished_order, t)
    /\ UNCHANGED <<runner_vars, context, context0, pc, i, result, ret, err, log, out,
                   threads, adjust, idle, held, snapshot, yielded, read_vars>>

\* the worker releases the idle semaphore and goes back to the work queue
WorkerRelease(t) ==
    /\ kind = "Async"
    /\ t \in held
    /\ fstate[t] = "finished"
    /\ held' = held \ {t}
    /\ idle' = idle + 1
    /\ UNCHANGED <<runner_vars, context, context0, pc, i, result, ret, err, log, out,
                   fstate, threads, adjust, finished_order, snapshot, yielded, read_vars>>

\* the submit loop is over; as_completed(tasks) notes the futures already finished
AsCompleted ==
    /\ kind = "Async"
    /\ pc = "submit"
    /\ i > N
    /\ pc' = "collect"
    /\ snapshot' = InState("finished")
    /\ UNCHANGED <<runner_vars, context, context0, i, result, ret, err, log, out,
                   fstate, threads, adjust, idle, held, finished_order, yielded, read_vars>>

\* as_completed yields t next: the futures of the snapshot come first, in no
\* particular order (they are kept in a set); the others in the order they finish
YieldsNext(t) ==
    LET done == SetOf(yielded)
    IN  /\ fstate[t] = "finished"
        /\ t \notin done
        /\ IF snapshot \ done # {}
           THEN t \in snapshot
           ELSE \A n \in 1..Len(finished_order) :
                    finished_order[n] \notin done =>
                        \E m \in 1..n : finished_order[m] = t

\* (mutation) the error of a future is dropped and its result taken as nothing
FutureResultRaises_Dropped(o) == FALSE

\* data = future.result() raises the error the task raised
FutureResultRaises(o) == o.state = "raised"

\* (mutation) the error of a task is replaced by an error of the runner
FutureException_Wrapped(o) == "RunnerError"

\* the error future.result() raises is the one the task raised, unchanged
FutureException(o) == o.err

\* (mutation) the merge keeps the value already merged for a key
AsyncMerge_KeepFirst(res, data) == DictUpdate(OrDict(data), res)

\* result.update(data or {})
AsyncMerge(res, data) == DictUpdate(res, OrDict(data))

\* one iteration of `for future in futures.as_completed(tasks)`
AsyncCollect(t) ==
    /\ kind = "Async"
    /\ pc = "collect"
    /\ YieldsNext(t)
    /\ yielded' = Append(yielded, t)
    /\ IF FutureResultRaises(out[t])
       THEN /\ err' = FutureException(out[t])
            /\ pc' = "unwind"
            /\ UNCHANGED result
       ELSE /\ result' = AsyncMerge(result, out[t].resp)
            /\ UNCHANGED <<err, pc>>
    /\ UNCHANGED <<runner_vars, context, context0, i, ret, log, out,
                   fstate, threads, adjust, idle, held, finished_order, snapshot, read_vars>>

\* (mutation) leaving the `with` block does not wait for the workers
ShutdownDone_NoWait == TRUE

\* executor.shutdown(wait=True) joins the worker threads: every work item has
\* been run and every worker has left its work item
ShutdownDone == (\A t \in 1..N : fstate[t] = "finished") /\ held = {}

\* as_completed is exhausted; the `with` block is left; return result
AsyncReturn ==
    /\ kind = "Async"
    /\ pc = "collect"
    /\ Len(yielded) = N
    /\ ShutdownDone
    /\ pc' = "returned"
    /\ ret' = Some(result)
    /\ UNCHANGED <<runner_vars, context, context0, i, result, err, log, out,
                   async_vars, read_vars>>

\* future.result() raised: the `with` block is left, then the error propagates
AsyncRaise ==
    /\ kind = "Async"
    /\ pc = "unwind"
    /\ ShutdownDone
    /\ pc' = "raised"
    /\ UNCHANGED <<runner_vars, context, context0, i, result, ret, err, log, out,
                   async_vars, read_vars>>

NextAsync ==
    \/ AsyncCall
    \/ SubmitPut
    \/ SubmitAcquire
    \/ SubmitStart
    \/ SubmitAdd
    \/ \E t \in 1..N : WorkerTake(t)
    \/ \E t \in 1..N : WorkerStart(t)
    \/ \E t \in 1..N : WorkerBody(t)
    \/ \E t \in 1..N : WorkerFinish(t)
    \/ \E t \in 1..N : WorkerRelease(t)
    \/ AsCompleted
    \/ \E t \in 1..N : AsyncCollect(t)
    \/ AsyncReturn
    \/ AsyncRaise

\* the task lists of the Async runners whose execute is followed
AsyncTaskLists == {ts \in DistinctTaskLists : Len(ts) <= MaxAsyncTasks}

SpecAsync == InitOf({"Async"}, AsyncTaskLists, Kwargs) /\ [][NextAsync]_vars

\* the worker pool at work: lists of a task that returns and a task that
\* raises, up to one task more than the default pool has workers (the
\* longest lists hold the returning task only), on the default pool and on
\* pools of 1..MaxPoolWorkers workers
PoolTaskLists ==
    {ts \in UNION {[1..n -> {1, 3}] : n \in 0..(DEFAULT_MAX_WORKERS + 1)} :
        Len(ts) > DEFAULT_MAX_WORKERS => \A n \in 1..Len(ts) : ts[n] = 1}

PoolKwargs == {EmptyDict} \cup {[max_workers |-> n] : n \in 1..MaxPoolWorkers}

SpecPool == InitOf({"Async"}, PoolTaskLists, PoolKwargs) /\ [][NextAsync]_vars

\* the statements of execute, run by the calling thread once it has called
CallerStep ==
    \/ SubmitPut
    \/ SubmitAcquire
    \/ SubmitStart
    \/ SubmitAdd
    \/ AsCompleted
    \/ \E t \in 1..N : AsyncCollect(t)
    \/ AsyncReturn
    \/ AsyncRaise

\* what the worker threads do for the work item of the task at position t
WorkerStep(t) ==
    /\ t \in 1..N
    /\ \/ WorkerTake(t)
       \/ WorkerStart(t)
       \/ WorkerBody(t)
       \/ WorkerFinish(t)
       \/ WorkerRelease(t)

\* whether execute ends depends on a task only through its returning or its
\* raising: lists, repetitions included, of one task that returns and one that raises
FairTaskLists ==
    {ts \in TaskLists : Len(ts) <= MaxAsyncTasks /\ \A n \in 1..Len(ts) : ts[n] \in {1, 3}}

\* the calling thread keeps running, every task body terminates, and the
\* operating system schedules the worker threads fairly
SpecAsyncFair ==
    /\ InitOf({"Async"}, FairTaskLists, Kwargs)
    /\ [][NextAsync]_vars
    /\ WF_vars(CallerStep)
    /\ \A t \in 1..MaxAsyncTasks : WF_vars(WorkerStep(t))

(***************************************************************************)
(* A runner in use: its properties are read and execute is called, again   *)
(* and again, each call with a context of the caller's.                    *)
(***************************************************************************)
\* the task lists of the runners followed over several calls
RunnerTaskLists ==
    {ts \in DistinctTaskLists :
        Len(ts) <= MaxAsyncTasks /\ \A n \in 1..Len(ts) : ts[n] \in {1, 4, 5}}

\* the call of execute is over; the caller gets ready to call execute again,
\* with a context of its choice; nothing of the finished call is kept
NewCall ==
    /\ pc \in {"returned", "raised"}
    /\ pc' = "idle"
    /\ context' \in ContextsOf(kind)
    /\ context0' = context'
    /\ i' = 1
    /\ result' = EmptyDict
    /\ ret' = None
    /\ err' = ""
    /\ log' = <<>>
    /\ out' = [t \in 1..N |-> NoOutcome]
    /\ fstate' = [t \in 1..N |-> "new"]
    /\ threads' = 0
    /\ adjust' = "none"
    /\ idle' = 0
    /\ held' = {}
    /\ finished_order' = <<>>
    /\ snapshot' = {}
    /\ yielded' = <<>>
    /\ UNCHANGED <<runner_vars, read_vars>>

NextRunner == NextSync \/ NextAsync \/ NextProps \/ NewCall

SpecRunner == InitOf({"Sync", "Async"}, RunnerTaskLists, Kwargs) /\ [][NextRunner]_vars

(***************************************************************************)
(* Properties.  They are stated over the record of the run (log, out,      *)
(* ret, err) with definitions of their own, not with the operators the     *)
(* actions are built from.                                                 *)
(***************************************************************************)
\* the mapping a call of task t contributed: its return value, nothing as empty
Produced(t) ==
    IF out[t].state = "returned" /\ ~out[t].resp.isNone THEN out[t].resp.d
    ELSE EmptyDict

\* base overlaid with top: on a key of both, top's value
Over(base, top) ==
    [k \in DOMAIN base \cup DOMAIN top |-> IF k \in DOMAIN top THEN top[k] ELSE base[k]]

\* the contributions of the tasks order[1..n], merged in that order
RECURSIVE MergedUpTo(_, _)
MergedUpTo(order, n) ==
    IF n = 0 THEN EmptyDict
    ELSE Over(MergedUpTo(order, n - 1), Produced(order[n]))

\* the tasks in list order
ListOrder == [n \in 1..N |-> n]

\* the error the body of the task at position n raises ("" if it returns)
ErrorOf(n) == TaskPool[tasks[n]].raises

\* C1: Sync.execute hands the n-th task the caller's context overlaid with the
\* outputs of tasks 1..n-1, the accumulated outputs taking precedence.
C1_InputIsContextOverlaidWithOutputs ==
    kind = "Sync" =>
        \A n \in 1..Len(log) :
            log[n].input = Over(context0, MergedUpTo(ListOrder, n - 1))

\* C2: when the task at position f raises, Sync.execute raises that error,
\* returns no mapping, has called tasks 1..f once each in list order, each of
\* 1..f-1 having returned, and calls no task after f.
C2_SyncFailure ==
    kind = "Sync" =>
        /\ \A n \in 1..Len(log) :
               ErrorOf(log[n].idx) # "" => pc = "raised" /\ n = Len(log)
        /\ pc = "raised" =>
               LET f == Len(log)
               IN  /\ f >= 1
                   /\ err = ErrorOf(f)
                   /\ err # ""
                   /\ ret = None
                   /\ \A n \in 1..f : log[n].idx = n
                   /\ \A n \in 1..(f - 1) : out[n].state = "returned"
                   /\ \A n \in (f + 1)..N : out[n].state = "none"

\* a failure in the middle of the list: one task before it, one after it
C2_Witness ==
    /\ kind = "Sync"
    /\ pc = "raised"
    /\ N = 3
    /\ Len(log) = 2
    /\ Produced(1) # EmptyDict

\* C3: when no task raises, Sync.execute calls every task once, in list order,
\* each after the one before it has returned, and returns the outputs merged in
\* list order from an empty mapping (nothing counts as empty, a later value
\* overwrites an earlier one; a key of the context is there only if returned).
C3_SyncResult ==
    kind = "Sync" =>
        /\ \A n \in 1..Len(log) :
               /\ log[n].idx = n
               /\ n < Len(log) => out[n].state = "returned"
        /\ pc = "returned" =>
               /\ Len(log) = N
               /\ \A n \in 1..N : out[n].state = "returned"
               /\ ~ret.isNone
               /\ ret.d = MergedUpTo(ListOrder, N)
               /\ \A k \in DOMAIN ret.d : \E n \in 1..N : k \in DOMAIN Produced(n)
        /\ (pc = "loop" /\ i > N /\ \A n \in 1..N : ErrorOf(n) = "") => Len(log) = N

\* a run that returned after a later task overwrote an earlier task's value,
\* with a key of the context that no task returned
C3_Witness ==
    /\ kind = "Sync"
    /\ pc = "returned"
    /\ N = 3
    /\ \E m, n \in 1..N :
           /\ m < n
           /\ "c" \in DOMAIN Produced(m) \cap DOMAIN Produced(n)
           /\ Produced(m)["c"] # Produced(n)["c"]
           /\ ret.d["c"] = Produced(n)["c"]
    /\ \E k \in DOMAIN context0 : k \notin DOMAIN ret.d

\* the contributions of a set of tasks have pairwise disjoint keys
DisjointOutputs ==
    \A t, u \in 1..N : t # u => DOMAIN Produced(t) \cap DOMAIN Produced(u) = {}

\* C4: when no task raises, Async.execute calls each task exactly once, with
\* the values of the context the caller supplied, returns only after every
\* task has completed, and returns a mapping whose keys are the union of the
\* keys of the outputs; with pairwise disjoint outputs the mapping does not
\* depend on the completion order.
C4_AsyncResult ==
    kind = "Async" =>
        /\ \A m, n \in 1..Len(log) : m # n => log[m].idx # log[n].idx
        /\ \A n \in 1..Len(log) : log[n].input = context0
        /\ pc = "returned" =>
               /\ {log[n].idx : n \in 1..Len(log)} = 1..N
               /\ \A t \in 1..N : fstate[t] = "finished" /\ out[t].state = "returned"
               /\ ~ret.isNone
               /\ DOMAIN ret.d = UNION {DOMAIN Produced(t) : t \in 1..N}
               /\ DisjointOutputs => ret.d = MergedUpTo(ListOrder, N)
        /\ (\A n \in 1..N : ErrorOf(n) = "") => pc # "raised" /\ pc # "unwind"

\* C5: Async.execute is all or nothing: once a task has raised it never
\* returns a mapping and, when it ends, it ends raising; a mapping it returns
\* holds the output of every task.
C5_AllOrNothing ==
    kind = "Async" =>
        /\ pc # "returned" => ret = None
        /\ (\E t \in 1..N : out[t].state = "raised") =>
               /\ pc # "returned"
               /\ ret = None
        /\ pc = "raised" =>
               /\ err # ""
               /\ \E t \in 1..N : out[t].state = "raised"
        /\ pc = "returned" =>
               /\ err = ""
               /\ \A t \in 1..N : out[t].state = "returned"
               /\ \A t \in 1..N : DOMAIN Produced(t) \subseteq DOMAIN ret.d
               /\ ret.d = MergedUpTo(yielded, N)

\* execute raised after the results of completed tasks had been merged
C5_Witness ==
    /\ kind = "Async"
    /\ pc = "raised"
    /\ result # EmptyDict
    /\ Len(yielded) >= 2
    /\ ret = None

\* the tasks that returned key k, and the one of them merged last
ProducersOf(k) == {t \in 1..N : k \in DOMAIN Produced(t)}

PositionIn(order, t) == CHOOSE n \in 1..Len(order) : order[n] = t

LastMerged(k) ==
    CHOOSE t \in ProducersOf(k) :
        \A u \in ProducersOf(k) : PositionIn(yielded, u) <= PositionIn(yielded, t)

LastCompleted(k) ==
    CHOOSE t \in ProducersOf(k) :
        \A u \in ProducersOf(k) :
            PositionIn(finished_order, u) <= PositionIn(finished_order, t)

\* C6 as stated: when several tasks return the same key, the mapping returned
\* holds the value of the one merged last, which is the one that completed last
\* (the later completion overwrites the earlier one).
C6_LastCompletedWins ==
    (kind = "Async" /\ pc = "returned") =>
        \A k \in DOMAIN ret.d :
            /\ ProducersOf(k) # {}
            /\ LastCompleted(k) = LastMerged(k)
            /\ ret.d[k] = Produced(LastCompleted(k))[k]

\* C6 (amended): when several tasks return the same key, the mapping
\* Async.execute returns holds for it exactly the value of the task among
\* them that the collecting loop merged last.
C6_LastMergedWins ==
    (kind = "Async" /\ pc = "returned") =>
        \A k \in DOMAIN ret.d :
            /\ ProducersOf(k) # {}
            /\ ret.d[k] = Produced(LastMerged(k))[k]

\* two tasks returned different values for a key; the one that completed
\* first was merged last, and its value is the one returned
C6_Witness ==
    /\ kind = "Async"
    /\ pc = "returned"
    /\ \E t, u \in ProducersOf("c") :
           /\ Produced(t)["c"] # Produced(u)["c"]
           /\ PositionIn(finished_order, t) < PositionIn(finished_order, u)
           /\ PositionIn(yielded, u) < PositionIn(yielded, t)
           /\ ret.d["c"] = Produced(t)["c"]

\* the bound on concurrency the runner was constructed with
WorkerBound == IF "max_workers" \in DOMAIN kwargs THEN kwargs["max_workers"] ELSE 3

\* the tasks that have been called and have not finished
Started == {log[n].idx : n \in 1..Len(log)}

Completed == {finished_order[n] : n \in 1..Len(finished_order)}

\* C7: the tasks started and not finished are never more than max_workers
\* (3 when the option was not given); the other submitted tasks are queued.
C7_ConcurrencyBound ==
    kind = "Async" =>
        /\ Cardinality(Started \ Completed) <= WorkerBound
        /\ \A t \in 1..N : fstate[t] \in {"running", "ran"} <=> t \in Started \ Completed
        /\ \A t \in 1..N : (t < i /\ t \notin Started) => fstate[t] \in {"pending", "taken"}

\* no option given: 3 of 4 tasks are running on 3 threads, the fourth waits in the queue
C7_Witness ==
    /\ kind = "Async"
    /\ kwargs = EmptyDict
    /\ N = 4
    /\ Cardinality(Started \ Completed) = 3
    /\ threads = 3
    /\ fstate[4] = "pending"

\* C8: each task gets a copy of its own of the caller's context: what a task
\* writes into its input shows neither in the input of another task nor in
\* the caller's mapping.
C8_ContextIsolation ==
    kind = "Async" =>
        /\ context = context0
        /\ \A n \in 1..Len(log) : log[n].input = context0

\* the task at position n carries no metadata record at all
LacksMetadata(n) == TaskPool[tasks[n]].meta.isNone

\* the requirements the task at position n declares (none: the empty set)
Declared(n) ==
    LET m == TaskPool[tasks[n]].meta
    IN  IF ~m.isNone /\ "requirements" \in DOMAIN m.d
        THEN {m.d.requirements[x] : x \in 1..Len(m.d.requirements)}
        ELSE {}

\* C9: reading `requirements` fails with NoRunnerRequirementsFound exactly
\* when some task of the list lacks metadata entirely, returning nothing;
\* otherwise it returns the union of the requirements the tasks declare.
C9_RequirementsFailIffNoMetadata ==
    requirements_read.read =>
        /\ requirements_read.raised <=> \E n \in 1..N : LacksMetadata(n)
        /\ requirements_read.raised =>
               /\ requirements_read.err = "NoRunnerRequirementsFound"
               /\ requirements_read.val = {}
        /\ ~requirements_read.raised =>
               requirements_read.val = UNION {Declared(n) : n \in 1..N}

\* the number a sequence of decimal digits denotes
DigitValue(c) == CHOOSE n \in 0..9 : Digit(n) = c

RECURSIVE ParseInt(_)
ParseInt(str) ==
    IF str = <<>> THEN 0
    ELSE 10 * ParseInt(SubSeq(str, 1, Len(str) - 1)) + DigitValue(str[Len(str)])

\* the timeout the task at position n counts for
DeclaredTimeout(n) ==
    LET m == TaskPool[tasks[n]].meta
    IN  IF ~m.isNone /\ "timeout" \in DOMAIN m.d THEN m.d.timeout ELSE 600

RECURSIVE SumOfTimeouts(_)
SumOfTimeouts(n) == IF n = 0 THEN 0 ELSE SumOfTimeouts(n - 1) + DeclaredTimeout(n)

\* C10: `timeout` is the decimal string of the sum over all tasks of the
\* declared timeout, 600 for a task without metadata or without a declared
\* timeout and 0 for a declared 0, whatever the runner class and max_workers.
C10_TimeoutIsSum ==
    timeout_read.read =>
        /\ Len(timeout_read.val) >= 1
        /\ \A n \in 1..Len(timeout_read.val) :
               \E v \in 0..9 : timeout_read.val[n] = Digit(v)
        /\ Len(timeout_read.val) > 1 => timeout_read.val[1] # "0"
        /\ ParseInt(timeout_read.val) = SumOfTimeouts(N)

\* an Async runner whose tasks declare 0, declare a timeout, and carry no metadata
C10_Witness ==
    /\ timeout_read.read
    /\ kind = "Async"
    /\ "max_workers" \in DOMAIN kwargs
    /\ N = 3
    /\ \E n \in 1..N : DeclaredTimeout(n) = 0 /\ ~LacksMetadata(n)
    /\ \E n \in 1..N : LacksMetadata(n)
    /\ \E n \in 1..N : DeclaredTimeout(n) = 30
    /\ timeout_read.val = <<"6", "3", "0">>

\* what a read of a property gave, apart from where it was read
Outcome(r) == <<r.raised, r.err, r.val>>

\* C11: whatever reads of `timeout` and `requirements` and calls of execute
\* are made on a runner, a later read of a property gives what the read
\* before it gave, and no step changes the runner's tasks or max_workers.
C11_ReadsArePure ==
    [][/\ tasks' = tasks
       /\ max_workers' = max_workers
       /\ (timeout_read.read /\ timeout_read'.read) =>
              Outcome(timeout_read') = Outcome(timeout_read)
       /\ (requirements_read.read /\ requirements_read'.read) =>
              Outcome(requirements_read') = Outcome(requirements_read)]_vars

\* an Async runner whose execute raised; one property was read before the
\* call and the other after it
C11_Witness ==
    /\ kind = "Async"
    /\ pc = "raised"
    /\ N = 2
    /\ timeout_read.read /\ timeout_read.at = "idle"
    /\ requirements_read.read /\ requirements_read.at = "raised"
    /\ ~requirements_read.raised

\* C12: once execute has returned or raised, on a Sync and on an Async
\* runner, the caller's context mapping holds exactly the keys and values it
\* held when execute was called.
C12_CallerContextUnchanged ==
    pc \in {"returned", "raised"} => context = context0

\* C13: on an Async runner with max_workers = 1 the tasks run one at a time,
\* in list order as under Sync, and every task is handed the context as the
\* caller supplied it, never what an earlier task produced.
C13_OneWorkerIsSequential ==
    (kind = "Async" /\ max_workers = 1) =>
        /\ Cardinality({t \in 1..N : fstate[t] \in {"taken", "running", "ran"}}) <= 1
        /\ \A n \in 1..Len(log) : log[n].idx = n
        /\ \A n \in 1..Len(finished_order) : finished_order[n] = n
        /\ Len(finished_order) <= Len(log)
        /\ Len(log) <= Len(finished_order) + 1
        /\ \A n \in 1..Len(log) : log[n].input = context0

\* the tasks that have failed, in the order in which they finished
RECURSIVE FailedIn(_)
FailedIn(order) ==
    IF order = <<>> THEN <<>>
    ELSE LET rest == FailedIn(Tail(order))
         IN  IF out[Head(order)].state = "raised"
             THEN <<Head(order)>> \o rest
             ELSE rest

\* C14 as stated: the error Async.execute raises is the error of the task that
\* failed first in completion order.
C14_FirstCompletedFailure ==
    (kind = "Async" /\ pc \in {"unwind", "raised"}) =>
        /\ FailedIn(finished_order) # <<>>
        /\ err = ErrorOf(Head(FailedIn(finished_order)))

\* C14 (amended): the error Async.execute raises is, unchanged, the error of
\* the first failed task the collecting loop is handed by as_completed; every
\* task handed before it returned, and no task is handed after it.
C14_FirstYieldedFailure ==
    (kind = "Async" /\ pc \in {"unwind", "raised"}) =>
        /\ yielded # <<>>
        /\ LET last == yielded[Len(yielded)]
           IN  /\ out[last].state = "raised"
               /\ ErrorOf(last) # ""
               /\ err = ErrorOf(last)
        /\ \A m \in 1..(Len(yielded) - 1) : out[yielded[m]].state = "returned"

C14_Witness ==
    /\ kind = "Async"
    /\ pc = "raised"
    /\ Len(FailedIn(finished_order)) >= 2
    /\ err = ErrorOf(FailedIn(finished_order)[2])
    /\ err # ErrorOf(Head(FailedIn(finished_order)))

\* C15: the result mapping of Async.execute is written by the collecting
\* thread only, one completed task's output per iteration: in every state it is
\* exactly the merge of the outputs of the futures the loop has been handed so
\* far, in that order, whatever the worker threads have done meanwhile.
C15_OnlyCollectorWritesResult ==
    kind = "Async" =>
        /\ result = MergedUpTo(yielded, Len(yielded))
        /\ \A n \in 1..Len(yielded) : fstate[yielded[n]] = "finished"
        /\ \A m, n \in 1..Len(yielded) : m # n => yielded[m] # yielded[n]
        /\ pc \in {"idle", "submit"} => yielded = <<>>

C15_Witness ==
    /\ kind = "Async"
    /\ pc = "collect"
    /\ Len(yielded) = 1
    /\ result # EmptyDict
    /\ \E t \in 1..N : fstate[t] = "ran" /\ Produced(t) # EmptyDict

\* C16: once called, Async.execute eventually returns or raises, whatever the
\* number of tasks and of workers; and when it returns, every task has
\* completed and the mapping returned is the merge of all the outputs.
C16_AsyncTerminates ==
    /\ (kind = "Async" /\ pc = "submit") ~> (pc \in {"returned", "raised"})
    /\ [](kind = "Async" /\ pc = "returned" =>
              /\ \A t \in 1..N : fstate[t] = "finished"
              /\ SetOf(yielded) = 1..N
              /\ ~ret.isNone
              /\ ret.d = MergedUpTo(yielded, N))

C16_Witness ==
    /\ kind = "Async"
    /\ pc = "returned"
    /\ N = MaxAsyncTasks
    /\ max_workers < N
    /\ ret.d # EmptyDict

\* the task at position n carries a metadata record without a requirements field
NoRequirementsField(n) ==
    LET m == TaskPool[tasks[n]].meta
    IN  ~m.isNone /\ "requirements" \notin DOMAIN m.d

\* C17: a task whose metadata record has no `requirements` field (a record
\* with only a timeout, a record with no fields) adds nothing to
\* `requirements` and causes no error: when every task carries a record, the
\* read returns the union of what the other tasks declare.
C17_NoRequirementsFieldIsEmptySet ==
    (/\ requirements_read.read
     /\ \E n \in 1..N : NoRequirementsField(n)
     /\ \A n \in 1..N : ~LacksMetadata(n)) =>
        /\ ~requirements_read.raised
        /\ requirements_read.val =
               UNION {Declared(n) : n \in {m \in 1..N : ~NoRequirementsField(m)}}

\* the number of times the task at position t has been invoked
Invocations(t) == Cardinality({n \in 1..Len(log) : log[n].idx = t})

\* C18: when a task raises, Async.execute abandons no task: a task is never
\* invoked twice, a task still queued when the failure is seen is still run,
\* and the error reaches the caller only once every submitted task has been
\* invoked exactly once and has finished.
C18_AwaitsSiblingsOnError ==
    kind = "Async" =>
        /\ \A t \in 1..N : Invocations(t) <= 1
        /\ \A t \in 1..N : fstate[t] \in {"running", "ran", "finished"} <=> Invocations(t) = 1
        /\ pc = "unwind" =>
               \A t \in 1..N : fstate[t] \in {"pending", "taken", "running", "ran", "finished"}
        /\ pc = "raised" =>
               \A t \in 1..N : fstate[t] = "finished" /\ Invocations(t) = 1

C18_Witness ==
    /\ kind = "Async"
    /\ pc = "raised"
    /\ max_workers = 1
    /\ N = MaxAsyncTasks
    /\ snapshot = {1}
    /\ yielded = <<1>>
    /\ \A t \in 2..N : out[t].state = "returned"

\* the keys the task at position n may return, and the key its output is read from
OutputKeys(n) ==
    LET t == TaskPool[tasks[n]]
    IN  (IF t.ret.isNone THEN {} ELSE DOMAIN t.ret.d)
            \cup (IF t.copy = <<>> THEN {} ELSE {t.copy[2]})

ReadKeys(n) == IF TaskPool[tasks[n]].copy = <<>> THEN {} ELSE {TaskPool[tasks[n]].copy[1]}

\* C19: for a task list in which no task raises, no task's output depends on
\* a key another task produces, and the output keys are pairwise disjoint,
\* Async.execute returns the mapping Sync.execute returns for the same
\* context, whatever max_workers and the interleaving.
C19_SyncAsyncAgree ==
    (/\ kind = "Async"
     /\ pc = "returned"
     /\ \A n \in 1..N : ErrorOf(n) = ""
     /\ \A m, n \in 1..N : m # n =>
            /\ ReadKeys(n) \cap OutputKeys(m) = {}
            /\ OutputKeys(n) \cap OutputKeys(m) = {}) =>
        ret.d = SyncExecute(tasks, context0)

====
